---- MODULE Spec2Model ----
(***************************************************************************)
(* ApplyBucketsWork (src/catchup/ApplyBucketsWork.cpp): the catch-up work  *)
(* that brings the live BucketList to the bucket hashes of a               *)
(* HistoryArchiveState, level by level from the coarsest to the finest,     *)
(* applying each replacement Bucket to the ledger database in chunks.      *)
(*                                                                         *)
(* A Hash is modelled as one byte and its hex text as two hex digits.      *)
(* A Bucket is a record: its content hash, the number of advance() calls   *)
(* its BucketApplicator needs, and the object it is (which shared_ptr).    *)
(***************************************************************************)
EXTENDS Integers, Sequences, FiniteSets

\* BucketList::kNumLevels, scaled down.
kNumLevels == 3
\* How many times the driver may reset the work.
MaxResets == 1

Levels == 0 .. (kNumLevels - 1)
Slots == {"snap", "curr"}

---------------------------------------------------------------------------
\* crypto/Hex: binToHex, hexToBin256, and isZero.

binToHex(bin) == << bin \div 16, bin % 16 >>

hexToBin256(hex) == hex[1] * 16 + hex[2]

isZero(bin) == bin = 0

---------------------------------------------------------------------------
\* Buckets.

\* An empty shared_ptr<Bucket>.
NullBucket == [hash |-> -1, chunks |-> 0, origin |-> "null"]

\* The content of a bucket decides both its hash and how many chunks the
\* applicator needs for it: the bucket of hash h has h chunks.
Bucket(h, origin) == [hash |-> h, chunks |-> h, origin |-> origin]

\* std::make_shared<Bucket>(): no entries, the all-zero hash.
FreshEmptyBucket == Bucket(0, "fresh")

\* An empty unique_ptr<BucketApplicator>.
NullApplicator == [bucket |-> NullBucket, left |-> 0]

\* make_unique<BucketApplicator>(db, bucket): positioned before the first chunk.
BucketApplicator(bucket) == [bucket |-> bucket, left |-> bucket.chunks]

\* BucketApplicator::operator bool: entries remain.
HasMore(app) == app.left > 0

\* BucketApplicator::advance: one chunk goes to the database.
advance(app) == [app EXCEPT !.left = app.left - 1]

IsSet(app) == app # NullApplicator

\* BucketLevel::setSnap and BucketLevel::setCurr
setSnap(level, b) == [level EXCEPT !.snap = b]

setCurr(level, b) == [level EXCEPT !.curr = b]

---------------------------------------------------------------------------
\* The inputs of a run.

\* The hashes a HistoryArchiveState names: the all-zero hash and one other.
TargetHashes == {0, 1}

HistoryStateBuckets ==
    [snap : {binToHex(h) : h \in TargetHashes},
     curr : {binToHex(h) : h \in TargetHashes}]

\* The BucketList before the run: at every level a snap of hash 1 and an
\* empty curr.
LiveLevelBefore == [snap |-> Bucket(1, "live"), curr |-> Bucket(0, "live")]

BucketListBefore == [l \in Levels |-> LiveLevelBefore]

\* The HistoryArchiveState the BucketManager last assumed.
HeadBefore ==
    [l \in Levels |-> [snap |-> binToHex(BucketListBefore[l].snap.hash),
                       curr |-> binToHex(BucketListBefore[l].curr.hash)]]

\* What a caller may put in the map: under the key of hash 1 nothing, the
\* bucket of hash 1, or a bucket of another content; and always a bucket
\* under the all-zero key, which no lookup should ever reach.
PoolChoices ==
    LET decoy == [k \in {binToHex(0)} |-> Bucket(1, "pool")]
        With(b) == [k \in {binToHex(0), binToHex(1)} |->
                        IF k = binToHex(1) THEN b ELSE decoy[k]]
    IN  {decoy, With(Bucket(1, "pool")), With(Bucket(2, "pool"))}

\* The BucketManager's buckets by hash: every bucket it holds is stored
\* under its own hash, and it always has an empty bucket for the all-zero
\* hash.
StoreChoices ==
    {[h \in {0} \cup K |-> Bucket(h, "store")] : K \in SUBSET {1}}

---------------------------------------------------------------------------
VARIABLES
    mBuckets,            \* the caller's map hash-hex -> Bucket
    bucketStore,         \* BucketManager: hash -> Bucket
    mApplyState,         \* the HistoryArchiveState to reach
    bucketList,          \* the live BucketList as this work's setSnap/setCurr leave it:
                         \* level -> [snap, curr]
    head,                \* the state last given to BucketManager::assumeState
    mLevel,
    mApplying,
    mSnapBucket,
    mCurrBucket,
    mSnapApplicator,
    mCurrApplicator,
    mBucketApplyStart,   \* meter history.bucket-apply.start
    mBucketApplySuccess, \* meter history.bucket-apply.success
    mBucketApplyFailure, \* meter history.bucket-apply.failure
    state,               \* the Work state, and which hook the driver calls next
    resets,              \* history: resets so far
    mismatched,          \* history: levels whose onStart found a hash differing, this attempt
    committed,           \* history: <<level, slot>> given setSnap/setCurr, this attempt
    ended,               \* history: levels whose onSuccess left the level, in order, this attempt
    dbApplied,           \* history: <<level, slot, hash>> of every bucket applied to the end
    lookups,             \* history: <<"pool", hex>> and <<"store", bin>> lookups made
    installs,            \* history: calls of assumeState
    starts,              \* history: onStart invocations, this attempt
    steps,               \* history: onRun invocations at each level, this attempt
    levelsAtStart,       \* history: the live BucketList when this attempt began
    created              \* history: <<level, slot>> given an applicator, this attempt

inputs == << mBuckets, bucketStore, mApplyState >>
fields == << mLevel, mApplying, mSnapBucket, mCurrBucket,
             mSnapApplicator, mCurrApplicator >>
meters == << mBucketApplyStart, mBucketApplySuccess, mBucketApplyFailure >>
history == << resets, mismatched, committed, ended, dbApplied, lookups, installs,
             starts, steps, levelsAtStart, created >>
vars == << inputs, bucketList, head, fields, meters, state, history >>

---------------------------------------------------------------------------
\* BucketManager::getBucketByHash: the stored bucket, or an empty pointer.
getBucketByHash(bin) ==
    IF bin \in DOMAIN bucketStore THEN bucketStore[bin] ELSE NullBucket

\* Mutant: a hash found nowhere resolves to an empty bucket.
getBucketOrEmpty(hash) ==
    IF isZero(hexToBin256(hash))
    THEN FreshEmptyBucket
    ELSE IF hash \in DOMAIN mBuckets
         THEN mBuckets[hash]
         ELSE IF getBucketByHash(hexToBin256(hash)) = NullBucket
              THEN FreshEmptyBucket
              ELSE getBucketByHash(hexToBin256(hash))

\* Mutant: the all-zero hash is looked up like any other.
getBucketNoSentinel(hash) ==
    IF hash \in DOMAIN mBuckets
    THEN mBuckets[hash]
    ELSE getBucketByHash(hexToBin256(hash))

\* Mutant: the persistent store is asked first, the pool is the fallback.
getBucketStoreFirst(hash) ==
    IF isZero(hexToBin256(hash))
    THEN FreshEmptyBucket
    ELSE IF getBucketByHash(hexToBin256(hash)) # NullBucket
         THEN getBucketByHash(hexToBin256(hash))
         ELSE IF hash \in DOMAIN mBuckets
              THEN mBuckets[hash]
              ELSE NullBucket

\* ApplyBucketsWork::getBucket, before its assert.
getBucket(hash) ==
    IF isZero(hexToBin256(hash))
    THEN FreshEmptyBucket
    ELSE IF hash \in DOMAIN mBuckets
         THEN mBuckets[hash]
         ELSE getBucketByHash(hexToBin256(hash))

\* The lookups getBucket makes for a hash.
getBucketLookups(hash) ==
    IF isZero(hexToBin256(hash))
    THEN {}
    ELSE IF hash \in DOMAIN mBuckets
         THEN {<<"pool", hash>>}
         ELSE {<<"pool", hash>>, <<"store", hexToBin256(hash)>>}

\* ApplyBucketsWork::getBucketLevel
getBucketLevel(level) == bucketList[level]

---------------------------------------------------------------------------
Init ==
    /\ mBuckets \in PoolChoices
    /\ bucketStore \in StoreChoices
    /\ mApplyState \in [Levels -> HistoryStateBuckets]
    /\ bucketList = BucketListBefore
    /\ head = HeadBefore
    /\ mLevel = kNumLevels - 1
    /\ mApplying = FALSE
    /\ mSnapBucket = NullBucket
    /\ mCurrBucket = NullBucket
    /\ mSnapApplicator = NullApplicator
    /\ mCurrApplicator = NullApplicator
    /\ mBucketApplyStart = 0
    /\ mBucketApplySuccess = 0
    /\ mBucketApplyFailure = 0
    /\ state = "WORK_PENDING"
    /\ resets = 0
    /\ mismatched = {}
    /\ committed = {}
    /\ ended = << >>
    /\ dbApplied = {}
    /\ lookups = {}
    /\ installs = 0
    /\ starts = 0
    /\ steps = [l \in Levels |-> 0]
    /\ levelsAtStart = BucketListBefore
    /\ created = {}

---------------------------------------------------------------------------
\* Mutant: the sticky flag is not consulted.
shouldApplyNoCascade(applying, want, have) ==
    want # binToHex(have.hash)

\* Mutant: every slot is replaced, whatever the hashes.
shouldApplyAlways(applying, want, have) == TRUE

\* onStart's two conditions: the sticky flag, or a target hash that is not
\* the live bucket's.
shouldApply(applying, want, have) ==
    applying \/ want # binToHex(have.hash)

\* Mutant: the curr applicator is tried first.
applicatorToAdvanceCurrFirst(snapApp, currApp) ==
    IF IsSet(currApp) /\ HasMore(currApp) THEN "curr"
    ELSE IF IsSet(snapApp) /\ HasMore(snapApp) THEN "snap"
    ELSE "none"

\* onRun's choice of the applicator to advance: "snap", "curr" or "none".
applicatorToAdvance(snapApp, currApp) ==
    IF IsSet(snapApp) /\ HasMore(snapApp) THEN "snap"
    ELSE IF IsSet(currApp) /\ HasMore(currApp) THEN "curr"
    ELSE "none"

\* Mutant: only the snap applicator is tested.
workRemainsSnapOnly(snapApp, currApp) ==
    IsSet(snapApp) /\ HasMore(snapApp)

\* Mutant: only the curr applicator is tested.
workRemainsCurrOnly(snapApp, currApp) ==
    IsSet(currApp) /\ HasMore(currApp)

\* onSuccess's first test: an applicator has entries left.
workRemains(snapApp, currApp) ==
    \/ IsSet(snapApp) /\ HasMore(snapApp)
    \/ IsSet(currApp) /\ HasMore(currApp)

\* Mutant: the curr bucket is counted but never given to setCurr.
commitLevelSnapOnly(level, snapB, currB) ==
    IF snapB # NullBucket THEN setSnap(level, snapB) ELSE level

\* onSuccess's commits: the level after setSnap/setCurr of the resolved buckets.
commitLevel(level, snapB, currB) ==
    LET afterSnap == IF snapB # NullBucket THEN setSnap(level, snapB) ELSE level
    IN  IF currB # NullBucket THEN setCurr(afterSnap, currB) ELSE afterSnap

\* Mutant: the commits come before the early return.
levelAfterSuccessEager(remains, level, snapB, currB) ==
    commitLevel(level, snapB, currB)

\* The live level onSuccess leaves behind.
levelAfterSuccess(remains, level, snapB, currB) ==
    IF remains THEN level ELSE commitLevel(level, snapB, currB)

\* Mutant: the walk stops one level early.
moreLevelsAboveOne(level) == level > 1

\* onSuccess's last test: levels remain below this one.
moreLevels(level) == level # 0

\* Mutant: the cursor skips a level.
nextLevelSkip(level) == IF level > 1 THEN level - 2 ELSE level - 1

\* --mLevel
nextLevel(level) == level - 1

\* The slots an applicator with nothing left has applied to the end.
AppliedToEnd(level, slot, app) ==
    IF IsSet(app) /\ ~HasMore(app)
    THEN {<<level, slot, app.bucket.hash>>}
    ELSE {}

---------------------------------------------------------------------------
\* The hooks.

\* Mutant: the reset keeps the sticky flag.
onResetKeepsApplying ==
    /\ state \in {"WORK_PENDING", "WORK_RUNNING", "SUCCESS_SCHEDULED",
                  "WORK_FAILURE_RETRY"}
    /\ resets < MaxResets
    /\ mLevel' = kNumLevels - 1
    /\ mSnapBucket' = NullBucket
    /\ mCurrBucket' = NullBucket
    /\ mSnapApplicator' = NullApplicator
    /\ mCurrApplicator' = NullApplicator
    /\ state' = "WORK_PENDING"
    /\ resets' = resets + 1
    /\ mismatched' = {}
    /\ committed' = {}
    /\ ended' = << >>
    /\ starts' = 0
    /\ steps' = [l \in Levels |-> 0]
    /\ levelsAtStart' = bucketList
    /\ created' = {}
    /\ UNCHANGED << inputs, bucketList, head, mApplying, meters, dbApplied,
                    lookups, installs >>

\* Mutant: the reset drops the applicators and keeps the resolved buckets.
onResetKeepsBuckets ==
    /\ state \in {"WORK_PENDING", "WORK_RUNNING", "SUCCESS_SCHEDULED",
                  "WORK_FAILURE_RETRY"}
    /\ resets < MaxResets
    /\ mLevel' = kNumLevels - 1
    /\ mApplying' = FALSE
    /\ mSnapApplicator' = NullApplicator
    /\ mCurrApplicator' = NullApplicator
    /\ state' = "WORK_PENDING"
    /\ resets' = resets + 1
    /\ mismatched' = {}
    /\ committed' = {}
    /\ ended' = << >>
    /\ starts' = 0
    /\ steps' = [l \in Levels |-> 0]
    /\ levelsAtStart' = bucketList
    /\ created' = {}
    /\ UNCHANGED << inputs, bucketList, head, mSnapBucket, mCurrBucket, meters,
                    dbApplied, lookups, installs >>

onReset ==
    /\ state \in {"WORK_PENDING", "WORK_RUNNING", "SUCCESS_SCHEDULED",
                  "WORK_FAILURE_RETRY"}
    /\ resets < MaxResets
    /\ mLevel' = kNumLevels - 1
    /\ mApplying' = FALSE
    /\ mSnapBucket' = NullBucket
    /\ mCurrBucket' = NullBucket
    /\ mSnapApplicator' = NullApplicator
    /\ mCurrApplicator' = NullApplicator
    /\ state' = "WORK_PENDING"
    /\ resets' = resets + 1
    /\ mismatched' = {}
    /\ committed' = {}
    /\ ended' = << >>
    /\ starts' = 0
    /\ steps' = [l \in Levels |-> 0]
    /\ levelsAtStart' = bucketList
    /\ created' = {}
    /\ UNCHANGED << inputs, bucketList, head, meters, dbApplied, lookups, installs >>

onStart ==
    /\ state = "WORK_PENDING"
    /\ LET level == getBucketLevel(mLevel)
           i == mApplyState[mLevel]
           wantSnap == shouldApply(mApplying, i.snap, level.snap)
           snapB == getBucket(i.snap)
           \* assert(b) in getBucket
           snapOK == wantSnap /\ snapB # NullBucket
           snapAsserts == wantSnap /\ snapB = NullBucket
           wantCurr == ~snapAsserts /\ shouldApply(mApplying \/ snapOK, i.curr, level.curr)
           currB == getBucket(i.curr)
           currOK == wantCurr /\ currB # NullBucket
           currAsserts == wantCurr /\ currB = NullBucket
           snapApp == IF snapOK THEN BucketApplicator(snapB) ELSE mSnapApplicator
           currApp == IF currOK THEN BucketApplicator(currB) ELSE mCurrApplicator
       IN
       /\ mSnapBucket' = IF snapOK THEN snapB ELSE mSnapBucket
       /\ mSnapApplicator' = snapApp
       /\ mCurrBucket' = IF currOK THEN currB ELSE mCurrBucket
       /\ mCurrApplicator' = currApp
       /\ mApplying' = (mApplying \/ snapOK \/ currOK)
       /\ mBucketApplyStart' = mBucketApplyStart + (IF snapOK THEN 1 ELSE 0)
                                                 + (IF currOK THEN 1 ELSE 0)
       /\ state' = IF snapAsserts \/ currAsserts THEN "ABORTED" ELSE "WORK_RUNNING"
       /\ lookups' = lookups \cup (IF wantSnap THEN getBucketLookups(i.snap) ELSE {})
                             \cup (IF wantCurr THEN getBucketLookups(i.curr) ELSE {})
       /\ mismatched' =
            IF \/ i.snap # binToHex(level.snap.hash)
               \/ i.curr # binToHex(level.curr.hash)
            THEN mismatched \cup {mLevel} ELSE mismatched
       /\ dbApplied' = dbApplied
                        \cup (IF snapOK THEN AppliedToEnd(mLevel, "snap", snapApp) ELSE {})
                        \cup (IF currOK THEN AppliedToEnd(mLevel, "curr", currApp) ELSE {})
       /\ created' = created
                        \cup (IF snapOK THEN {<<mLevel, "snap">>} ELSE {})
                        \cup (IF currOK THEN {<<mLevel, "curr">>} ELSE {})
    /\ starts' = starts + 1
    /\ UNCHANGED << inputs, bucketList, head, mLevel, mBucketApplySuccess,
                    mBucketApplyFailure, resets, committed, ended, installs,
                    steps, levelsAtStart >>

onRun ==
    /\ state = "WORK_RUNNING"
    /\ LET which == applicatorToAdvance(mSnapApplicator, mCurrApplicator)
           snapApp == IF which = "snap" THEN advance(mSnapApplicator) ELSE mSnapApplicator
           currApp == IF which = "curr" THEN advance(mCurrApplicator) ELSE mCurrApplicator
       IN
       /\ mSnapApplicator' = snapApp
       /\ mCurrApplicator' = currApp
       /\ dbApplied' = dbApplied
                        \cup (IF which = "snap" THEN AppliedToEnd(mLevel, "snap", snapApp) ELSE {})
                        \cup (IF which = "curr" THEN AppliedToEnd(mLevel, "curr", currApp) ELSE {})
    \* scheduleSuccess()
    /\ state' = "SUCCESS_SCHEDULED"
    /\ steps' = [steps EXCEPT ![mLevel] = steps[mLevel] + 1]
    /\ UNCHANGED << inputs, bucketList, head, mLevel, mApplying, mSnapBucket,
                    mCurrBucket, meters, resets, mismatched, committed, ended,
                    lookups, installs, starts, levelsAtStart, created >>

\* BucketManager::assumeState(has), called on the last line of onSuccess.
\* Its body is outside this file; the caller hands it the state to install
\* as the BucketList's authoritative head, and that is what is recorded.
\* What the callee does to the levels afterwards is not modelled: bucketList
\* stays the list as the setSnap/setCurr calls of this work left it.
assumeState(has) ==
    /\ head' = has
    /\ installs' = installs + 1

onSuccess ==
    /\ state = "SUCCESS_SCHEDULED"
    /\ LET remains == workRemains(mSnapApplicator, mCurrApplicator)
           level == getBucketLevel(mLevel)
           last == ~moreLevels(mLevel)
       IN
       /\ bucketList' = [bucketList EXCEPT
                           ![mLevel] = levelAfterSuccess(remains, level,
                                                         mSnapBucket, mCurrBucket)]
       /\ IF remains
          THEN /\ state' = "WORK_RUNNING"
               /\ UNCHANGED << head, fields, meters, committed, ended, installs >>
          ELSE /\ mBucketApplySuccess' = mBucketApplySuccess
                                          + (IF mSnapBucket # NullBucket THEN 1 ELSE 0)
                                          + (IF mCurrBucket # NullBucket THEN 1 ELSE 0)
               /\ committed' = committed
                                \cup (IF mSnapBucket # NullBucket
                                      THEN {<<mLevel, "snap">>} ELSE {})
                                \cup (IF mCurrBucket # NullBucket
                                      THEN {<<mLevel, "curr">>} ELSE {})
               /\ ended' = Append(ended, mLevel)
               /\ mSnapBucket' = NullBucket
               /\ mCurrBucket' = NullBucket
               /\ mSnapApplicator' = NullApplicator
               /\ mCurrApplicator' = NullApplicator
               /\ mLevel' = IF last THEN mLevel ELSE nextLevel(mLevel)
               /\ IF last
                  THEN assumeState(mApplyState)
                  ELSE UNCHANGED << head, installs >>
               /\ state' = IF last THEN "WORK_SUCCESS" ELSE "WORK_PENDING"
               /\ UNCHANGED << mApplying, mBucketApplyStart, mBucketApplyFailure >>
    /\ UNCHANGED << inputs, resets, mismatched, dbApplied, lookups, starts, steps,
                    levelsAtStart, created >>

\* Mutant: the hook also restarts the walk itself.
onFailureRetryRestarts ==
    /\ state = "WORK_RUNNING"
    /\ mBucketApplyFailure' = mBucketApplyFailure + 1
    /\ mApplying' = FALSE
    /\ mLevel' = kNumLevels - 1
    /\ state' = "WORK_FAILURE_RETRY"
    /\ UNCHANGED << inputs, bucketList, head, mSnapBucket, mCurrBucket,
                    mSnapApplicator, mCurrApplicator, mBucketApplyStart,
                    mBucketApplySuccess, history >>

onFailureRetry ==
    /\ state = "WORK_RUNNING"
    /\ mBucketApplyFailure' = mBucketApplyFailure + 1
    \* Work::onFailureRetry(): the driver resets the work before it retries
    /\ state' = "WORK_FAILURE_RETRY"
    /\ UNCHANGED << inputs, bucketList, head, fields, mBucketApplyStart,
                    mBucketApplySuccess, history >>

onFailureRaise ==
    /\ state = "WORK_RUNNING"
    /\ mBucketApplyFailure' = mBucketApplyFailure + 1
    \* Work::onFailureRaise(): the failure goes to the parent
    /\ state' = "WORK_FAILURE_RAISE"
    /\ UNCHANGED << inputs, bucketList, head, fields, mBucketApplyStart,
                    mBucketApplySuccess, history >>

Next ==
    \/ onReset
    \/ onStart
    \/ onRun
    \/ onSuccess
    \/ onFailureRetry
    \/ onFailureRaise

Spec == Init /\ [][Next]_vars

\* The driver of a run that is neither reset nor failed: onStart on
\* WORK_PENDING, onRun on WORK_RUNNING, onSuccess after scheduleSuccess.
NextRun ==
    \/ onStart
    \/ onRun
    \/ onSuccess

\* The driver keeps invoking the hook the state calls for.
FairSpec == Init /\ [][NextRun]_vars /\ WF_vars(NextRun)

---------------------------------------------------------------------------
\* Vocabulary of the properties.

Range(seq) == {seq[k] : k \in DOMAIN seq}

ZeroHex == binToHex(0)

\* The live hashes of a level, as the HistoryArchiveState would write them.
LiveHex(level) == [snap |-> binToHex(level.snap.hash),
                   curr |-> binToHex(level.curr.hash)]

\* The slots a run from the BucketList before the run applies when nothing
\* interrupts it: onStart's rule, walked from the coarsest level down.
RECURSIVE WouldApply(_, _)
WouldApply(level, applying) ==
    LET i == mApplyState[level]
        have == LiveHex(BucketListBefore[level])
        snap == applying \/ i.snap # have.snap
        curr == snap \/ i.curr # have.curr
        here == (IF snap THEN {<<level, "snap">>} ELSE {})
                  \cup (IF curr THEN {<<level, "curr">>} ELSE {})
    IN  IF level = 0 THEN here ELSE here \cup WouldApply(level - 1, curr)

\* C1: cascade. Within an attempt, once onStart of a level L found a live
\* hash differing from the target, every finer level the attempt has left
\* has both slots committed, each with the bucket getBucket resolves from
\* the target, and each applied to the end; at WORK_SUCCESS that is every
\* level below L, whether or not its live hashes matched before the run.
C1_Cascade ==
    \A L \in mismatched : \A F \in Range(ended) :
        F < L =>
            \A s \in Slots :
                /\ <<F, s>> \in committed
                /\ bucketList[F][s] = getBucket(mApplyState[F][s])
                /\ <<F, s, bucketList[F][s].hash>> \in dbApplied

\* A run without reset has succeeded, a level differed, and a finer level
\* whose live hashes already matched was replaced all the same.
C1_Witness ==
    /\ state = "WORK_SUCCESS"
    /\ resets = 0
    /\ \E L \in mismatched : \E F \in Levels :
        /\ F < L
        /\ mApplyState[F] = LiveHex(BucketListBefore[F])
        /\ <<F, "snap">> \in committed
        /\ <<F, "curr">> \in committed

\* C2: reset preserves required work. At WORK_SUCCESS every slot the
\* uninterrupted run would have applied has been applied to the end, also
\* when the run was reset on the way.
C2_ResetPreservesWork ==
    state = "WORK_SUCCESS" =>
        \A ls \in WouldApply(kNumLevels - 1, FALSE) :
            \E app \in dbApplied : app[1] = ls[1] /\ app[2] = ls[2]

\* The levels in the order the walk leaves them: kNumLevels-1 first.
Descending(n) == [k \in 1 .. n |-> kNumLevels - k]

\* C4: single head installation. assumeState is called only by the
\* onSuccess that finds cursor 0 and no applicator with entries left, after
\* every level kNumLevels-1..0 of the attempt was left, once, and with the
\* caller's HistoryArchiveState; until WORK_SUCCESS the head is the head
\* from before the run.
C4_SingleHeadInstallation ==
    [][/\ (head' # head \/ installs' # installs) =>
            /\ state = "SUCCESS_SCHEDULED"
            /\ mLevel = 0
            /\ ~HasMore(mSnapApplicator)
            /\ ~HasMore(mCurrApplicator)
            /\ ended' = Descending(kNumLevels)
            /\ installs = 0
            /\ installs' = 1
            /\ head' = mApplyState
            /\ state' = "WORK_SUCCESS"
       /\ state' = "WORK_SUCCESS" => (installs' = 1 /\ head' = mApplyState)
       /\ state' # "WORK_SUCCESS" => (installs' = 0 /\ head' = HeadBefore)
      ]_vars

\* The head was installed after a reset, and it is not the head from before.
C4_Witness ==
    /\ state = "WORK_SUCCESS"
    /\ resets > 0
    /\ installs = 1
    /\ head = mApplyState
    /\ head # HeadBefore

\* C5: no-op idempotence. When the BucketList before the run has the target
\* hashes at every level, no applicator is ever created, no bucket resolved,
\* nothing applied or committed, the start and success meters stay 0, the
\* work never aborts, and at WORK_SUCCESS the head is the target.
C5_NoOpIdempotence ==
    (\A l \in Levels : mApplyState[l] = LiveHex(BucketListBefore[l])) =>
        /\ mBucketApplyStart = 0
        /\ mBucketApplySuccess = 0
        /\ ~IsSet(mSnapApplicator)
        /\ ~IsSet(mCurrApplicator)
        /\ mSnapBucket = NullBucket
        /\ mCurrBucket = NullBucket
        /\ ~mApplying
        /\ committed = {}
        /\ dbApplied = {}
        /\ lookups = {}
        /\ bucketList = BucketListBefore
        /\ state # "ABORTED"
        /\ state = "WORK_SUCCESS" => (head = mApplyState /\ installs = 1)

\* The no-op run has succeeded.
C5_Witness ==
    /\ \A l \in Levels : mApplyState[l] = LiveHex(BucketListBefore[l])
    /\ state = "WORK_SUCCESS"
    /\ ended = Descending(kNumLevels)
    /\ head = mApplyState

\* A non-zero hash that is neither a key of the caller's map nor in the
\* BucketManager.
Missing(hex) ==
    /\ ~isZero(hexToBin256(hex))
    /\ hex \notin DOMAIN mBuckets
    /\ hexToBin256(hex) \notin DOMAIN bucketStore

\* C6: missing-data fatality. An onStart that has to resolve a missing hash
\* ends the work at once: it creates no bucket and no applicator for that
\* hash, commits nothing and installs no head; and after the abort nothing
\* happens at all (no retry, no commit, no head).
C6_MissingDataFatality ==
    [][/\ state # "ABORTED"
       /\ (state = "WORK_PENDING" /\ state' # "WORK_PENDING") =>
            LET i == mApplyState[mLevel]
                have == LiveHex(bucketList[mLevel])
                needSnap == mApplying \/ i.snap # have.snap
                needCurr == needSnap \/ i.curr # have.curr
            IN  /\ (needSnap /\ Missing(i.snap)) =>
                    /\ state' = "ABORTED"
                    /\ mSnapBucket' = NullBucket
                    /\ mSnapApplicator' = NullApplicator
                    /\ mCurrBucket' = NullBucket
                    /\ mCurrApplicator' = NullApplicator
                    /\ mBucketApplyStart' = mBucketApplyStart
                /\ (needCurr /\ Missing(i.curr)) =>
                    /\ state' = "ABORTED"
                    /\ mCurrBucket' = NullBucket
                    /\ mCurrApplicator' = NullApplicator
                /\ state' = "ABORTED" =>
                    /\ (needSnap /\ Missing(i.snap)) \/ (needCurr /\ Missing(i.curr))
                    /\ bucketList' = bucketList
                    /\ head' = head
                    /\ committed' = committed
                    /\ installs' = installs
                    /\ mLevel' = mLevel
      ]_vars

\* The work aborted at a finer level after a coarser level was committed.
C6_Witness ==
    /\ state = "ABORTED"
    /\ committed # {}
    /\ mLevel < kNumLevels - 1
    /\ Missing(mApplyState[mLevel].snap) \/ Missing(mApplyState[mLevel].curr)
    /\ head = HeadBefore

\* C7: zero-hash sentinel. getBucket of the all-zero hash is the fresh empty
\* bucket and makes no lookup, whatever the map and the store hold; no
\* lookup ever made is for the all-zero hash; a slot whose target is the
\* all-zero hash is resolved to, and committed as, the fresh empty bucket;
\* and in an attempt never reset every commit was counted once by each meter.
C7_ZeroHashSentinel ==
    /\ getBucket(ZeroHex) = FreshEmptyBucket
    /\ getBucketLookups(ZeroHex) = {}
    /\ \A lk \in lookups : lk # <<"pool", ZeroHex>> /\ lk # <<"store", 0>>
    /\ (mSnapBucket # NullBucket /\ mApplyState[mLevel].snap = ZeroHex)
            => (mSnapBucket = FreshEmptyBucket /\ mSnapApplicator.left = 0)
    /\ (mCurrBucket # NullBucket /\ mApplyState[mLevel].curr = ZeroHex)
            => (mCurrBucket = FreshEmptyBucket /\ mCurrApplicator.left = 0)
    /\ \A ls \in committed :
            mApplyState[ls[1]][ls[2]] = ZeroHex =>
                bucketList[ls[1]][ls[2]] = FreshEmptyBucket
    /\ resets = 0 =>
            /\ mBucketApplySuccess = Cardinality(committed)
            /\ mBucketApplyStart = Cardinality(committed)
                    + (IF mSnapBucket # NullBucket THEN 1 ELSE 0)
                    + (IF mCurrBucket # NullBucket THEN 1 ELSE 0)

\* A snap whose target is the all-zero hash, and whose live hash was not,
\* was committed while the map and the store both held an entry under the
\* all-zero key.
C7_Witness ==
    /\ ZeroHex \in DOMAIN mBuckets
    /\ 0 \in DOMAIN bucketStore
    /\ \E l \in Levels :
        /\ <<l, "snap">> \in committed
        /\ mApplyState[l].snap = ZeroHex
        /\ BucketListBefore[l].snap.hash # 0
        /\ bucketList[l].snap = FreshEmptyBucket
    /\ mBucketApplySuccess > 0

\* C8: commit atomicity per level. The live levels change only in an
\* onSuccess that leaves the stepping state (to WORK_PENDING or
\* WORK_SUCCESS), and then only the level at the cursor.
C8_CommitAtomicity ==
    [][bucketList' # bucketList =>
            /\ state = "SUCCESS_SCHEDULED"
            /\ state' \in {"WORK_PENDING", "WORK_SUCCESS"}
            /\ ~HasMore(mSnapApplicator)
            /\ ~HasMore(mCurrApplicator)
            /\ \A l \in Levels : l # mLevel => bucketList'[l] = bucketList[l]
      ]_vars

\* Mid-level: a coarser level is committed, the snap applicator of the level
\* at the cursor has applied chunks, and that level still holds the buckets
\* from before the run.
C8_Witness ==
    /\ committed # {}
    /\ state = "WORK_RUNNING"
    /\ IsSet(mSnapApplicator)
    /\ mSnapApplicator.left < mSnapApplicator.bucket.chunks
    /\ IsSet(mCurrApplicator)
    /\ HasMore(mCurrApplicator)
    /\ bucketList[mLevel] = BucketListBefore[mLevel]

\* C9: strict coarsest-to-finest ordering. Within an attempt the levels left
\* so far are kNumLevels-1 down to the one above the cursor, in that order
\* and once each; commits are of levels already left; the cursor moves only
\* down by 1 in an onSuccess that leaves the level (or back to the top in a
\* reset); and every chunk applied and every commit is of the level at the
\* cursor.
C9_Ordering ==
    [][/\ ended' = Descending(Len(ended'))
       /\ Len(ended') = (IF state' = "WORK_SUCCESS"
                         THEN kNumLevels ELSE kNumLevels - 1 - mLevel')
       /\ \A ls \in committed' : ls[1] \in Range(ended')
       /\ mLevel' # mLevel =>
            \/ resets' = resets + 1 /\ mLevel' = kNumLevels - 1
            \/ /\ resets' = resets
               /\ mLevel' = mLevel - 1
               /\ state = "SUCCESS_SCHEDULED"
               /\ state' = "WORK_PENDING"
               /\ ended' = Append(ended, mLevel)
       /\ \A app \in dbApplied' \ dbApplied : app[1] = mLevel
       /\ \A ls \in committed' \ committed : ls[1] = mLevel
       /\ ((IsSet(mSnapApplicator') /\ mSnapApplicator'.left < mSnapApplicator.left)
            \/ (IsSet(mCurrApplicator') /\ mCurrApplicator'.left < mCurrApplicator.left))
          => (mLevel' = mLevel /\ Range(ended) = {l \in Levels : l > mLevel})
      ]_vars

\* A run has left every level in order, with commits at more than one level.
C9_Witness ==
    /\ state = "WORK_SUCCESS"
    /\ ended = Descending(kNumLevels)
    /\ \E a, b \in committed : a[1] # b[1]

\* C10: reset frame. A reset puts the cursor at kNumLevels-1, clears the
\* flag, and empties both bucket references and both applicators; the live
\* levels, the head, the three meters and the inputs are as before.
C10_ResetFrame ==
    [][resets' # resets =>
            /\ mLevel' = kNumLevels - 1
            /\ mApplying' = FALSE
            /\ mSnapBucket' = NullBucket
            /\ mCurrBucket' = NullBucket
            /\ mSnapApplicator' = NullApplicator
            /\ mCurrApplicator' = NullApplicator
            /\ bucketList' = bucketList
            /\ head' = head
            /\ mBucketApplyStart' = mBucketApplyStart
            /\ mBucketApplySuccess' = mBucketApplySuccess
            /\ mBucketApplyFailure' = mBucketApplyFailure
            /\ inputs' = inputs
      ]_vars

\* Just after a reset that interrupted an attempt with a level committed:
\* the committed level keeps its target buckets, the meters their counts.
C10_Witness ==
    /\ resets > 0
    /\ state = "WORK_PENDING"
    /\ mLevel = kNumLevels - 1
    /\ ended = << >>
    /\ ~mApplying
    /\ bucketList[kNumLevels - 1] # BucketListBefore[kNumLevels - 1]
    /\ bucketList[0] = BucketListBefore[0]
    /\ mBucketApplyStart > mBucketApplySuccess
    /\ mBucketApplySuccess > 0

\* The chunks an applicator has sent to the database.
Consumed(app) == app.bucket.chunks - app.left

\* C11: step discipline. An onRun advances at most one applicator, by one
\* chunk: the snap applicator whenever it exists and has entries left, the
\* curr applicator only when the snap applicator is absent or exhausted;
\* so in every state a curr applicator that has sent a chunk stands beside
\* a snap applicator that is absent or exhausted.
C11_StepDiscipline ==
    [][/\ (state = "WORK_RUNNING" /\ state' = "SUCCESS_SCHEDULED") =>
            LET snapStep == mSnapApplicator.left - mSnapApplicator'.left
                currStep == mCurrApplicator.left - mCurrApplicator'.left
                snapHasWork == IsSet(mSnapApplicator) /\ HasMore(mSnapApplicator)
                currHasWork == IsSet(mCurrApplicator) /\ HasMore(mCurrApplicator)
            IN  /\ snapStep \in {0, 1}
                /\ currStep \in {0, 1}
                /\ snapStep + currStep <= 1
                /\ mSnapApplicator'.bucket = mSnapApplicator.bucket
                /\ mCurrApplicator'.bucket = mCurrApplicator.bucket
                /\ snapHasWork => (snapStep = 1 /\ currStep = 0)
                /\ (~snapHasWork /\ currHasWork) => (currStep = 1 /\ snapStep = 0)
                /\ (~snapHasWork /\ ~currHasWork) => (snapStep = 0 /\ currStep = 0)
       /\ (IsSet(mCurrApplicator') /\ Consumed(mCurrApplicator') > 0) =>
            ~HasMore(mSnapApplicator')
      ]_vars

\* Both applicators exist, the snap bucket has been applied to its last
\* chunk and the curr applicator is between two of its chunks.
C11_Witness ==
    /\ IsSet(mSnapApplicator)
    /\ IsSet(mCurrApplicator)
    /\ mSnapApplicator.bucket.chunks > 1
    /\ ~HasMore(mSnapApplicator)
    /\ Consumed(mCurrApplicator) > 0
    /\ HasMore(mCurrApplicator)

\* C12: commit only after full application. onSuccess answers WORK_RUNNING,
\* and commits nothing, exactly when an applicator has entries left; it
\* commits only when both are exhausted or absent; both resolved buckets
\* are committed by the same onSuccess; and every committed bucket has been
\* applied to the end.
C12_CommitAfterFullApplication ==
    [][/\ (state = "SUCCESS_SCHEDULED" /\ resets' = resets) =>
            LET remains == HasMore(mSnapApplicator) \/ HasMore(mCurrApplicator)
            IN  /\ (state' = "WORK_RUNNING") <=> remains
                /\ remains =>
                    /\ bucketList' = bucketList
                    /\ committed' = committed
                    /\ mBucketApplySuccess' = mBucketApplySuccess
                    /\ mSnapApplicator' = mSnapApplicator
                    /\ mCurrApplicator' = mCurrApplicator
                    /\ mLevel' = mLevel
                /\ ~remains =>
                    /\ mSnapBucket # NullBucket =>
                        (<<mLevel, "snap">> \in committed'
                            /\ bucketList'[mLevel].snap = mSnapBucket)
                    /\ mCurrBucket # NullBucket =>
                        (<<mLevel, "curr">> \in committed'
                            /\ bucketList'[mLevel].curr = mCurrBucket)
       /\ (committed' # committed /\ resets' = resets) =>
            (~HasMore(mSnapApplicator) /\ ~HasMore(mCurrApplicator))
       /\ \A ls \in committed' :
            <<ls[1], ls[2], bucketList'[ls[1]][ls[2]].hash>> \in dbApplied'
      ]_vars

\* A level has both slots committed with buckets of more than one chunk.
C12_Witness ==
    \E l \in Levels :
        /\ <<l, "snap">> \in committed
        /\ <<l, "curr">> \in committed
        /\ bucketList[l].snap.chunks > 1
        /\ bucketList[l].curr.chunks > 1
        /\ steps[l] = bucketList[l].snap.chunks + bucketList[l].curr.chunks

\* The levels whose live snap or curr hash differed from the target before
\* the run.
Differing == {l \in Levels : mApplyState[l] # LiveHex(BucketListBefore[l])}

\* The coarsest level of a non-empty set of levels.
Coarsest(ls) == CHOOSE l \in ls : \A m \in ls : m <= l

\* The replacements the rule of C13 counts for the coarsest differing
\* level L: 2 + 2L when the snap hash of L differs, 1 + 2L otherwise.
ReplacementCount ==
    IF Differing = {} THEN 0
    ELSE LET L == Coarsest(Differing)
         IN  IF mApplyState[L].snap # LiveHex(BucketListBefore[L]).snap
             THEN 2 + 2 * L
             ELSE 1 + 2 * L

\* C13: replacement count. A run without reset that reached WORK_SUCCESS
\* has started and succeeded ReplacementCount replacements, committed that
\* many slots, none at a level coarser than the coarsest differing level L,
\* and not the snap of L when only its curr hash differed.
C13_ReplacementCount ==
    (state = "WORK_SUCCESS" /\ resets = 0) =>
        /\ mBucketApplyStart = ReplacementCount
        /\ mBucketApplySuccess = ReplacementCount
        /\ Cardinality(committed) = ReplacementCount
        /\ \A ls \in committed :
            /\ ls[1] \in Levels
            /\ Differing # {}
            /\ ls[1] <= Coarsest(Differing)
            /\ (ls[1] = Coarsest(Differing) /\ ls[2] = "snap") =>
                mApplyState[ls[1]].snap # LiveHex(BucketListBefore[ls[1]]).snap

\* A run of three levels without reset succeeded where only the curr hash
\* of level 2 differed: five replacements started, five succeeded.
C13_Witness ==
    /\ state = "WORK_SUCCESS"
    /\ resets = 0
    /\ Differing = {2}
    /\ mApplyState[2].snap = LiveHex(BucketListBefore[2]).snap
    /\ mBucketApplyStart = 5
    /\ mBucketApplySuccess = 5
    /\ <<2, "snap">> \notin committed

\* C14: sticky cascade flag. mApplying is false when an attempt begins;
\* it turns true only in an onStart, and an onStart leaves it true exactly
\* when it was true before or the invocation created an applicator; no
\* onStart, onRun or onSuccess clears it, only a reset does; so within an
\* attempt it is true iff an applicator was created since the attempt began.
C14_StickyCascadeFlag ==
    [][/\ (starts' = 0 /\ state' = "WORK_PENDING") => ~mApplying'
       /\ resets' # resets => ~mApplying'
       /\ (~mApplying /\ mApplying') =>
            /\ state = "WORK_PENDING"
            /\ starts' = starts + 1
            /\ resets' = resets
            /\ created' # created
            /\ mBucketApplyStart' > mBucketApplyStart
       /\ (state = "WORK_PENDING" /\ starts' = starts + 1) =>
            (mApplying' <=> (mApplying \/ created' # created))
       /\ (mApplying /\ ~mApplying') => resets' = resets + 1
       /\ mApplying <=> (created # {})
       /\ mApplying' <=> (created' # {})
      ]_vars

\* The flag was set at a coarser level and is still set, with no applicator
\* alive, when the walk stands before the onStart of a finer level.
C14_Witness ==
    /\ mApplying
    /\ state = "WORK_PENDING"
    /\ mLevel < kNumLevels - 1
    /\ mSnapApplicator = NullApplicator
    /\ mCurrApplicator = NullApplicator
    /\ created # {}

\* C15: counter accounting. The start meter rises by the number of
\* applicators an onStart creates and at no other time; the success meter
\* rises by the number of setSnap/setCurr calls an onSuccess makes and at no
\* other time; no meter ever falls, a reset included; so success <= start
\* always, and they are equal when a run never reset reaches WORK_SUCCESS.
C15_CounterAccounting ==
    [][/\ mBucketApplyStart' - mBucketApplyStart =
            (IF resets' = resets THEN Cardinality(created' \ created) ELSE 0)
       /\ mBucketApplyStart' # mBucketApplyStart =>
            (state = "WORK_PENDING" /\ starts' = starts + 1)
       /\ mBucketApplySuccess' - mBucketApplySuccess =
            (IF resets' = resets THEN Cardinality(committed' \ committed) ELSE 0)
       /\ mBucketApplySuccess' # mBucketApplySuccess =>
            (state = "SUCCESS_SCHEDULED" /\ ended' = Append(ended, mLevel))
       /\ resets' = resets =>
            \A l \in Levels : \A s \in Slots :
                IF <<l, s>> \in committed' \ committed
                THEN /\ l = mLevel
                     /\ bucketList'[l][s] =
                            (IF s = "snap" THEN mSnapBucket ELSE mCurrBucket)
                ELSE bucketList'[l][s] = bucketList[l][s]
       /\ resets' # resets => bucketList' = bucketList
       /\ mBucketApplyStart' >= mBucketApplyStart
       /\ mBucketApplySuccess' >= mBucketApplySuccess
       /\ mBucketApplyFailure' >= mBucketApplyFailure
       /\ mBucketApplySuccess <= mBucketApplyStart
       /\ mBucketApplySuccess' <= mBucketApplyStart'
       /\ (state' = "WORK_SUCCESS" /\ resets' = 0) =>
            (mBucketApplyFailure' = 0 /\ mBucketApplySuccess' = mBucketApplyStart')
      ]_vars

\* A run that was reset after applicators had been created has succeeded:
\* the meters kept the first attempt's starts, so success < start.
C15_Witness ==
    /\ state = "WORK_SUCCESS"
    /\ resets > 0
    /\ mBucketApplySuccess > 0
    /\ mBucketApplySuccess < mBucketApplyStart

\* C16: failure hooks only record. A step that marks the failure meter or
\* enters a failure state is an onFailureRetry or onFailureRaise: it adds exactly 1 to the failure meter, hands the work to
\* the driver's retry or raise state, and leaves the cursor, the cascade
\* flag, the buckets and applicators, every live level, the head and the
\* start and success meters as they were.
C16_FailureHooksOnlyRecord ==
    [][(\/ mBucketApplyFailure' # mBucketApplyFailure
        \/ (state' \in {"WORK_FAILURE_RETRY", "WORK_FAILURE_RAISE"} /\ state' # state))
       => /\ state' \in {"WORK_FAILURE_RETRY", "WORK_FAILURE_RAISE"}
          /\ mBucketApplyFailure' = mBucketApplyFailure + 1
          /\ mLevel' = mLevel
          /\ mApplying' = mApplying
          /\ mSnapBucket' = mSnapBucket
          /\ mCurrBucket' = mCurrBucket
          /\ mSnapApplicator' = mSnapApplicator
          /\ mCurrApplicator' = mCurrApplicator
          /\ bucketList' = bucketList
          /\ head' = head
          /\ mBucketApplyStart' = mBucketApplyStart
          /\ mBucketApplySuccess' = mBucketApplySuccess
          /\ UNCHANGED inputs
      ]_vars

\* A failure was recorded at a finer level while the cascade flag was set
\* and an applicator stood between two chunks; all of it is still there.
C16_Witness ==
    /\ state = "WORK_FAILURE_RETRY"
    /\ mBucketApplyFailure = 1
    /\ mApplying
    /\ mLevel < kNumLevels - 1
    /\ IsSet(mSnapApplicator)
    /\ Consumed(mSnapApplicator) > 0
    /\ HasMore(mSnapApplicator)
    /\ mBucketApplyStart > mBucketApplySuccess

\* Every target hash the uninterrupted run has to resolve is resolvable.
Resolvable ==
    \A ls \in WouldApply(kNumLevels - 1, FALSE) :
        getBucket(mApplyState[ls[1]][ls[2]]) # NullBucket

\* The chunks of the applicators the uninterrupted run creates for a level.
RECURSIVE SumChunks(_)
SumChunks(slots) ==
    IF slots = {} THEN 0
    ELSE LET ls == CHOOSE x \in slots : TRUE
         IN  getBucket(mApplyState[ls[1]][ls[2]]).chunks + SumChunks(slots \ {ls})

LevelChunks(l) ==
    SumChunks({ls \in WouldApply(kNumLevels - 1, FALSE) : ls[1] = l})

\* The onRun invocations a level takes: one per chunk, one when there is none.
ExpectedSteps(l) == IF LevelChunks(l) = 0 THEN 1 ELSE LevelChunks(l)

\* The run has ended as C17 says it does.
TerminatedAsExpected ==
    /\ state = "WORK_SUCCESS"
    /\ head = mApplyState
    /\ installs = 1
    /\ starts = kNumLevels
    /\ ended = Descending(kNumLevels)
    /\ \A l \in Levels : steps[l] = ExpectedSteps(l)

\* C17: termination. When every hash onStart has to resolve is resolvable
\* and the driver keeps invoking onStart, onRun and onSuccess as the state
\* directs, without reset or failure, the run reaches WORK_SUCCESS with the
\* head installed, after exactly kNumLevels onStart invocations and, at
\* each level, as many onRun invocations as the level's applicators have
\* chunks (one when they have none); and it then stays there.
C17_Termination ==
    Resolvable => <>[]TerminatedAsExpected

\* A run ended after a level took one step for no chunk at all, and
\* another took a step for each of several chunks of two applicators.
C17_Witness ==
    /\ TerminatedAsExpected
    /\ resets = 0
    /\ mBucketApplyFailure = 0
    /\ \E l \in Levels : LevelChunks(l) = 0 /\ steps[l] = 1
    /\ \E l \in Levels : LevelChunks(l) > 2 /\ steps[l] = LevelChunks(l)

\* The bucket onStart resolved for a slot of the level in progress.
ResolvedBucket(s) == IF s = "snap" THEN mSnapBucket ELSE mCurrBucket

\* C18: resolution order. For a non-zero hash getBucket returns the pool's
\* bucket whenever the pool has the hash-hex key, also when the store holds
\* a bucket under the same hash, and the store is not asked for it; the
\* store is asked only for a key the pool lacks, and its bucket is then
\* returned. So is every bucket onStart has resolved.
C18_ResolutionOrder ==
    /\ \A bin \in TargetHashes :
        LET hex == binToHex(bin)
        IN  ~isZero(bin) =>
                /\ hex \in DOMAIN mBuckets =>
                    /\ getBucket(hex) = mBuckets[hex]
                    /\ <<"store", bin>> \notin lookups
                /\ hex \notin DOMAIN mBuckets =>
                    /\ getBucket(hex) = getBucketByHash(bin)
                    /\ <<"pool", hex>> \in lookups => <<"store", bin>> \in lookups
                /\ <<"store", bin>> \in lookups => <<"pool", hex>> \in lookups
    /\ \A s \in Slots :
        LET hex == mApplyState[mLevel][s]
            bin == hexToBin256(hex)
        IN  (ResolvedBucket(s) # NullBucket /\ ~isZero(bin)) =>
                /\ <<"pool", hex>> \in lookups
                /\ hex \in DOMAIN mBuckets => ResolvedBucket(s) = mBuckets[hex]
                /\ hex \notin DOMAIN mBuckets =>
                    ResolvedBucket(s) = bucketStore[bin]

\* onStart resolved a non-zero hash that both the pool and the store hold,
\* with different buckets: the pool's was taken and the store was not asked.
C18_Witness ==
    \E s \in Slots :
        LET hex == mApplyState[mLevel][s]
            bin == hexToBin256(hex)
        IN  /\ ~isZero(bin)
            /\ hex \in DOMAIN mBuckets
            /\ bin \in DOMAIN bucketStore
            /\ mBuckets[hex] # bucketStore[bin]
            /\ ResolvedBucket(s) = mBuckets[hex]
            /\ <<"pool", hex>> \in lookups
            /\ <<"store", bin>> \notin lookups

\* C19: committed-suffix invariant. With cursor mLevel, every live level
\* above the cursor holds buckets whose hashes are the target pair, and
\* every level at or below it holds the buckets it held when the attempt
\* began; at WORK_SUCCESS, where level 0 has been committed as well, level 0
\* counts with the levels above.
C19_CommittedSuffix ==
    /\ \A i \in Levels :
        i > mLevel => LiveHex(bucketList[i]) = mApplyState[i]
    /\ state # "WORK_SUCCESS" =>
        \A i \in Levels : i <= mLevel => bucketList[i] = levelsAtStart[i]
    /\ state = "WORK_SUCCESS" => LiveHex(bucketList[0]) = mApplyState[0]

\* The applicator of a slot of the level in progress.
SlotApplicator(s) == IF s = "snap" THEN mSnapApplicator ELSE mCurrApplicator

\* C20: no stale pair crosses a level boundary. When onStart is about to
\* be entered, after an onSuccess that left a level or after a reset, both
\* resolved buckets and both applicators are absent; a resolved bucket is
\* present iff its applicator is, and it is the applicator's bucket; a
\* present bucket is the one getBucket resolves for the same slot of the
\* cursor's target entry, resolved in this attempt; and every slot
\* committed in this attempt holds the bucket getBucket resolves for that
\* level's and slot's target hash, resolved in this attempt.
C20_NoStalePair ==
    /\ state = "WORK_PENDING" =>
        \A s \in Slots :
            ResolvedBucket(s) = NullBucket /\ SlotApplicator(s) = NullApplicator
    /\ \A s \in Slots :
        /\ ResolvedBucket(s) # NullBucket <=> IsSet(SlotApplicator(s))
        /\ SlotApplicator(s).bucket = ResolvedBucket(s)
        /\ ResolvedBucket(s) # NullBucket =>
            /\ ResolvedBucket(s) = getBucket(mApplyState[mLevel][s])
            /\ <<mLevel, s>> \in created
            /\ <<mLevel, s>> \notin committed
    /\ \A ls \in committed :
        /\ ls \in created
        /\ bucketList[ls[1]][ls[2]] = getBucket(mApplyState[ls[1]][ls[2]])
    /\ \A ls \in created : ls[1] >= mLevel

\* After a reset that dropped a half-applied pair of a finer level, the
\* restarted attempt stands at a level boundary with nothing resolved.
C20_Witness ==
    /\ resets > 0
    /\ state = "WORK_PENDING"
    /\ mBucketApplyStart > mBucketApplySuccess
    /\ committed # {}
    /\ mLevel < kNumLevels - 1
    /\ \A s \in Slots :
        ResolvedBucket(s) = NullBucket /\ SlotApplicator(s) = NullApplicator

====
